---- MODULE Spec2Model ----
(***************************************************************************)
(* IntentCore: reasoning extraction, completeness validation, governance   *)
(* enforcement and the decision lifecycle (process_decision,               *)
(* submit_human_decision, record_execution) over the SQLite store.         *)
(*                                                                         *)
(* Text is abstracted to the features the code inspects: its length and    *)
(* whether it contains an earnings keyword.  A completeness score is the   *)
(* rational num/den.  An Optional[datetime] is a sequence of length <= 1.  *)
(***************************************************************************)
EXTENDS Integers, Sequences, FiniteSets, TLC

VARIABLES
    config,        \* GovernanceEngine.config of the runtime
    chains,        \* table reasoning_chains: chain id -> row, or NoChain
    review_queue,  \* table review_queue, in insertion order
    audit_log,     \* table audit_log, in insertion order
    uuid_count,    \* number of chain ids generated so far
    clock,         \* datetime.utcnow(), one tick per lifecycle call
    ret,           \* outcome of the last lifecycle call
    pc,            \* position of each concurrent caller
    local,         \* the chain object each concurrent caller holds
    request,       \* what the caller passed to the pure pipeline
    cur,           \* the chain under evaluation by the pure pipeline
    stage,         \* how far the pure pipeline has got
    validation,    \* ValidationResult of the pure pipeline
    verdict,       \* GovernanceResult of the pure pipeline
    queue_priority, \* review priority computed by the pure pipeline
    bridge         \* mode of the FinRobot bridge and outcome of its last hook call

vars == <<config, chains, review_queue, audit_log, uuid_count, clock, ret,
          pc, local, request, cur, stage, validation, verdict, queue_priority,
          bridge>>

lifecycleVars == <<config, chains, review_queue, audit_log, uuid_count, clock, ret>>
concVars == <<pc, local>>
pureVars == <<request, cur, stage, validation, verdict, queue_priority>>
bridgeVars == <<bridge>>

\* ------------------------------------------------------------------ bounds
MaxChains == 2
MaxCalls == 3

\* ------------------------------------------------------ program constants
SingleTradeMax == 100000000
ReviewThreshold == 50000000
PriorityHighAmount == 50000000

\* ------------------------------------------------------------ value model
None == "None"
NoTime == <<>>
NoDict == [isNone |-> TRUE, keys |-> {}]
EmptyDict == [isNone |-> FALSE, keys |-> {}]
Dict(ks) == [isNone |-> FALSE, keys |-> ks]

\* Python truthiness of an Optional[dict]
Truthy(d) == ~d.isNone /\ d.keys # {}

\* A JSON value under a magnitude key of the tool-call arguments.
Absent == [k |-> "absent", n |-> 0, suf |-> "", frac |-> FALSE]
Null == [k |-> "null", n |-> 0, suf |-> "", frac |-> FALSE]
Num(n) == [k |-> "num", n |-> n, suf |-> "", frac |-> FALSE]
\* the string "$<n><suf>", or "$<n>.50<suf>" when frac
Str(n, suf, frac) == [k |-> "str", n |-> n, suf |-> suf, frac |-> frac]
\* a string without any digit
Words == [k |-> "words", n |-> 0, suf |-> "", frac |-> FALSE]

Text(len, earnings) == [len |-> len, earnings |-> earnings]

Score(num, den) == [num |-> num, den |-> den]
\* score < a/b
ScoreBelow(s, a, b) == s.num * b < a * s.den
\* score >= a/b
ScoreAtLeast(s, a, b) == s.num * b >= a * s.den

RECURSIVE Pow10(_)
Pow10(e) == IF e = 0 THEN 1 ELSE 10 * Pow10(e - 1)

\* str.upper() on the symbols of the model
Upper(s) ==
    CASE s = "nvda" -> "NVDA"
      [] s = "xyz" -> "XYZ"
      [] OTHER -> s

\* ------------------------------------------------------------- extractor
\* The parsed argument payload of a tool call: a JSON object, or a JSON
\* array, or (payload that does not parse) the dict {"raw": payload}.
Params(kind, quantity, amount, size, value, symbol) ==
    [kind |-> kind, quantity |-> quantity, amount |-> amount, size |-> size,
     value |-> value, symbol |-> symbol]
NoParams == Params("dict", Absent, Absent, Absent, Absent, "absent")
RawParams == Params("raw", Absent, Absent, Absent, Absent, "absent")

\* tool_call = {"id", "function": {"name", "arguments"}}; payload is what
\* json.loads makes of the arguments, or "unparsable"
_extract_action_from_tool_call(tool_call) ==
    [type |-> "tool_call",
     function |-> tool_call.name,
     content |-> "",
     parameters |-> IF tool_call.parses THEN tool_call.payload ELSE RawParams]

_extract_action_from_messages_ignoring_tool_calls(last) ==
    IF last.role = "assistant"
    THEN [type |-> "message", function |-> "", content |-> last.content,
          parameters |-> NoParams]
    ELSE [type |-> "unknown", function |-> "", content |-> "", parameters |-> NoParams]

\* last is the most recent assistant turn of the conversation
_extract_action_from_messages(last) ==
    IF last.role = "assistant"
    THEN IF last.has_tool_calls
         THEN _extract_action_from_tool_call(last.tool_call)
         ELSE [type |-> "message", function |-> "", content |-> last.content,
               parameters |-> NoParams]
    ELSE [type |-> "unknown", function |-> "", content |-> "", parameters |-> NoParams]

NoToolCall == [present |-> FALSE, name |-> "", parses |-> TRUE, payload |-> NoParams]
ToolCall(name, parses, payload) ==
    [present |-> TRUE, name |-> name, parses |-> parses, payload |-> payload]

required == <<"situation", "quantitative_analysis", "risks", "rationale", "action">>

\* validate_completeness: which components the chain satisfies
components(chain) ==
    [situation |-> chain.situation.len > 0 /\ chain.situation.len > 50,
     quantitative_analysis |-> chain.quantitative_analysis.amounts > 0
                                \/ chain.quantitative_analysis.metrics > 0,
     risks |-> chain.risks > 0,
     rationale |-> chain.rationale.len > 0 /\ chain.rationale.len > 20,
     action |-> chain.selected_action.function # ""
                \/ chain.selected_action.content # "",
     options |-> chain.options > 0]

validate_completeness_counting_options(chain) ==
    LET comp == components(chain)
        missing == SelectSeq(required, LAMBDA c : ~comp[c])
        n == Cardinality({i \in 1..Len(required) : comp[required[i]]})
             + (IF comp.options THEN 1 ELSE 0)
        score == Score(n, Len(required) + 1)
    IN  [is_valid |-> ScoreAtLeast(score, 6, 10),
         completeness_score |-> score,
         missing_components |-> missing,
         warnings |-> IF ~comp.options THEN <<"no_options">> ELSE <<>>]

validate_completeness(chain) ==
    LET comp == components(chain)
        missing == SelectSeq(required, LAMBDA c : ~comp[c])
        score == Score(Cardinality({i \in 1..Len(required) : comp[required[i]]}),
                       Len(required))
    IN  [is_valid |-> ScoreAtLeast(score, 6, 10),
         completeness_score |-> score,
         missing_components |-> missing,
         warnings |-> IF ~comp.options THEN <<"no_options">> ELSE <<>>]

\* _extract_situation raises where re.finditer gets a content that is not
\* text, and where .lower() is called on the content of a tool turn that is
\* null or not text; the scans after it raise on nothing else.
_extract_situation_raises(messages) ==
    \/ messages.content = "nontext"
    \/ messages.tool_content \in {"null", "nontext"}

extract_raises(messages, tool_call) == _extract_situation_raises(messages)

\* ReasoningChain as extract() returns it.  conv carries what the pattern
\* scans of the conversation yield; tool_call is the targeted action.
extract(chain_id, now, conv, tool_call) ==
    LET c0 == [chain_id |-> chain_id,
               timestamp |-> now,
               agent_id |-> "agent",
               agent_role |-> "Market_Analyst",
               task |-> conv.task,
               conversation_history |-> conv.snapshot,
               situation |-> conv.situation,
               quantitative_analysis |-> conv.quantitative_analysis,
               options |-> conv.options,
               selected_action |-> IF tool_call.present
                                   THEN _extract_action_from_tool_call(tool_call)
                                   ELSE _extract_action_from_messages(conv.last),
               rationale |-> conv.rationale,
               risks |-> conv.risks,
               completeness_score |-> Score(0, 1),
               missing_components |-> <<>>,
               policy_results |-> <<>>,
               requires_review |-> FALSE,
               governance_decision |-> "pending",
               reviewer_id |-> None,
               review_timestamp |-> NoTime,
               human_decision |-> None,
               human_rationale |-> None,
               human_modification |-> NoDict,
               execution_status |-> "pending",
               execution_result |-> NoDict,
               execution_timestamp |-> NoTime]
        v == validate_completeness(c0)
    IN  [c0 EXCEPT !.completeness_score = v.completeness_score,
                   !.missing_components = v.missing_components]

\* ------------------------------------------------------------ governance
Policy(name, severity, auto_block) ==
    [name |-> name, severity |-> severity, auto_block |-> auto_block]

\* _init_policies
policies ==
    << Policy("trade_size_limit", "error", TRUE),
       Policy("blacklist_check", "error", TRUE),
       Policy("high_value_review", "warning", FALSE),
       Policy("pre_earnings_review", "warning", FALSE),
       Policy("completeness_check", "error", TRUE) >>

\* _get_default_config, with the blacklist and the high-value switch open
Config(symbols, actions, high_value) ==
    [trade_limits |-> [single_trade_max |-> SingleTradeMax,
                       review_threshold |-> ReviewThreshold],
     blacklist |-> [symbols |-> symbols, actions |-> actions],
     review_requirements |-> [high_value |-> high_value]]
DefaultConfig == Config({}, {}, TRUE)

Size(found, size, raises) == [found |-> found, size |-> size, raises |-> raises]

\* val.replace("$","").replace("M","000000").replace("K","000"), then the first
\* run of [\d,]+ : the digits before a decimal point, else the digits with the
\* zeros a K or M suffix was replaced by (a B suffix is not replaced)
StrMagnitude(val) ==
    IF val.frac THEN val.n
    ELSE CASE val.suf = "M" -> val.n * Pow10(6)
           [] val.suf = "K" -> val.n * Pow10(3)
           [] OTHER -> val.n

\* the body of the loop over ["quantity", "amount", "size", "value"] for the
\* first key that is present
MagnitudeOf(val) ==
    CASE val.k = "str" -> Size(TRUE, StrMagnitude(val), FALSE)
      [] val.k = "words" -> Size(FALSE, 0, FALSE)
      [] val.k = "num" -> Size(TRUE, val.n, FALSE)
      [] OTHER -> Size(FALSE, 0, TRUE)

TradeSize_amount_first(parameters) ==
    IF parameters.kind # "dict" THEN Size(FALSE, 0, FALSE)
    ELSE CASE parameters.amount.k # "absent" -> MagnitudeOf(parameters.amount)
           [] parameters.quantity.k # "absent" -> MagnitudeOf(parameters.quantity)
           [] parameters.size.k # "absent" -> MagnitudeOf(parameters.size)
           [] parameters.value.k # "absent" -> MagnitudeOf(parameters.value)
           [] OTHER -> Size(FALSE, 0, FALSE)

\* trade_size of _check_trade_size_limit and _check_high_value_review
TradeSize(parameters) ==
    IF parameters.kind # "dict" THEN Size(FALSE, 0, FALSE)
    ELSE CASE parameters.quantity.k # "absent" -> MagnitudeOf(parameters.quantity)
           [] parameters.amount.k # "absent" -> MagnitudeOf(parameters.amount)
           [] parameters.size.k # "absent" -> MagnitudeOf(parameters.size)
           [] parameters.value.k # "absent" -> MagnitudeOf(parameters.value)
           [] OTHER -> Size(FALSE, 0, FALSE)

\* A check's outcome: status "passed", "failed", or "raised" (an exception)
Result(status, message) == [status |-> status, message |-> message]

_check_trade_size_limit_at_twice_the_maximum(chain, cfg) ==
    LET trade_size == TradeSize(chain.selected_action.parameters)
    IN  IF trade_size.raises THEN Result("raised", "float_type_error")
        ELSE IF ~trade_size.found THEN Result("passed", "no_trade_size")
        ELSE IF trade_size.size > 2 * cfg.trade_limits.single_trade_max
             THEN Result("failed", "exceeds_maximum")
             ELSE Result("passed", "within_limits")

_check_trade_size_limit(chain, cfg) ==
    LET trade_size == TradeSize(chain.selected_action.parameters)
    IN  IF trade_size.raises THEN Result("raised", "float_type_error")
        ELSE IF ~trade_size.found THEN Result("passed", "no_trade_size")
        ELSE IF trade_size.size > cfg.trade_limits.single_trade_max
             THEN Result("failed", "exceeds_maximum")
             ELSE Result("passed", "within_limits")

_check_blacklist(chain, cfg) ==
    LET action == chain.selected_action
        parameters == action.parameters
        symbol == IF parameters.symbol = "absent" THEN "" ELSE Upper(parameters.symbol)
    IN  IF parameters.kind = "list" THEN Result("raised", "no_attribute_get")
        ELSE IF parameters.symbol = "nonstring" THEN Result("raised", "no_attribute_upper")
        ELSE IF symbol \in cfg.blacklist.symbols THEN Result("failed", "symbol_blacklisted")
        ELSE IF action.function \in cfg.blacklist.actions
             THEN Result("failed", "action_restricted")
             ELSE Result("passed", "no_blacklist_violations")

_check_high_value_review_at_trade_maximum(chain, cfg) ==
    IF ~cfg.review_requirements.high_value THEN Result("passed", "not_required")
    ELSE LET trade_size == TradeSize(chain.selected_action.parameters)
         IN  IF trade_size.raises THEN Result("raised", "float_type_error")
             ELSE IF ~trade_size.found THEN Result("passed", "non_trading")
             ELSE IF trade_size.size > cfg.trade_limits.single_trade_max
                  THEN Result("failed", "high_value_requires_review")
                  ELSE Result("passed", "below_threshold")

_check_high_value_review(chain, cfg) ==
    IF ~cfg.review_requirements.high_value THEN Result("passed", "not_required")
    ELSE LET trade_size == TradeSize(chain.selected_action.parameters)
         IN  IF trade_size.raises THEN Result("raised", "float_type_error")
             ELSE IF ~trade_size.found THEN Result("passed", "non_trading")
             ELSE IF trade_size.size > cfg.trade_limits.review_threshold
                  THEN Result("failed", "high_value_requires_review")
                  ELSE Result("passed", "below_threshold")

_check_pre_earnings(chain, cfg) ==
    IF chain.situation.earnings \/ chain.task.earnings
    THEN Result("failed", "before_earnings")
    ELSE Result("passed", "no_timing_concerns")

_check_completeness(chain, cfg) ==
    IF ScoreBelow(chain.completeness_score, 6, 10)
    THEN Result("failed", "below_minimum")
    ELSE Result("passed", "acceptable")

check_function(name, chain, cfg) ==
    CASE name = "trade_size_limit" -> _check_trade_size_limit(chain, cfg)
      [] name = "blacklist_check" -> _check_blacklist(chain, cfg)
      [] name = "high_value_review" -> _check_high_value_review(chain, cfg)
      [] name = "pre_earnings_review" -> _check_pre_earnings(chain, cfg)
      [] OTHER -> _check_completeness(chain, cfg)

RECURSIVE RunPolicies_aborting_on_error(_, _, _, _)
RunPolicies_aborting_on_error(i, chain, cfg, acc) ==
    IF i > Len(policies) THEN acc
    ELSE LET policy == policies[i]
             result == check_function(policy.name, chain, cfg)
         IN  IF result.status = "raised"
             THEN [acc EXCEPT !.warnings = Append(@,
                      [policy |-> policy.name, message |-> "policy_check_failed"])]
             ELSE RunPolicies_aborting_on_error(i + 1, chain, cfg,
                      LET checked == [acc EXCEPT !.policy_checks = Append(@,
                                         [policy |-> policy.name, result |-> result])]
                      IN  IF result.status = "failed" /\ policy.severity = "error"
                          THEN [checked EXCEPT !.violations = Append(@,
                                   [policy |-> policy.name, message |-> result.message,
                                    auto_block |-> policy.auto_block])]
                          ELSE IF result.status = "failed" /\ policy.severity = "warning"
                          THEN [checked EXCEPT !.warnings = Append(@,
                                   [policy |-> policy.name, message |-> result.message])]
                          ELSE checked)

\* The loop of enforce over policies[i..]: acc holds violations, warnings and
\* policy_checks so far.  A check that raises leaves no policy_checks entry
\* and appends a warning.
RECURSIVE RunPolicies(_, _, _, _)
RunPolicies(i, chain, cfg, acc) ==
    IF i > Len(policies) THEN acc
    ELSE LET policy == policies[i]
             result == check_function(policy.name, chain, cfg)
             next ==
                 IF result.status = "raised"
                 THEN [acc EXCEPT !.warnings = Append(@,
                          [policy |-> policy.name, message |-> "policy_check_failed"])]
                 ELSE LET checked == [acc EXCEPT !.policy_checks = Append(@,
                                         [policy |-> policy.name, result |-> result])]
                      IN  IF result.status = "failed" /\ policy.severity = "error"
                          THEN [checked EXCEPT !.violations = Append(@,
                                   [policy |-> policy.name, message |-> result.message,
                                    auto_block |-> policy.auto_block])]
                          ELSE IF result.status = "failed" /\ policy.severity = "warning"
                          THEN [checked EXCEPT !.warnings = Append(@,
                                   [policy |-> policy.name, message |-> result.message])]
                          ELSE checked
         IN  RunPolicies(i + 1, chain, cfg, next)

_make_decision_ignoring_warnings(violations, warnings) ==
    IF \E i \in 1..Len(violations) : violations[i].auto_block THEN "rejected"
    ELSE IF violations # <<>> THEN "review_required"
    ELSE "approved"

_make_decision(violations, warnings) ==
    IF \E i \in 1..Len(violations) : violations[i].auto_block THEN "rejected"
    ELSE IF violations # <<>> \/ warnings # <<>> THEN "review_required"
    ELSE "approved"

_requires_review_without_completeness(violations, warnings, chain) ==
    violations # <<>> \/ warnings # <<>>

_requires_review_on_low_completeness_only(violations, warnings, chain) ==
    ScoreBelow(chain.completeness_score, 8, 10)

_requires_review(violations, warnings, chain) ==
    IF violations # <<>> \/ warnings # <<>> THEN TRUE
    ELSE IF ScoreBelow(chain.completeness_score, 8, 10) THEN TRUE
    ELSE FALSE

_get_decision_reasoning(decision, violations, warnings) ==
    CASE decision = "rejected" -> [kind |-> "rejected", reasons |-> violations]
      [] decision = "review_required" ->
            [kind |-> "review_required", reasons |-> violations \o warnings]
      [] OTHER -> [kind |-> "all_passed", reasons |-> <<>>]

Messages(entries) == [i \in 1..Len(entries) |-> entries[i].message]

\* GovernanceEngine.enforce
enforce(chain, cfg) ==
    LET run == RunPolicies(1, chain, cfg,
                   [violations |-> <<>>, warnings |-> <<>>, policy_checks |-> <<>>])
        decision == _make_decision(run.violations, run.warnings)
    IN  [decision |-> decision,
         requires_review |-> _requires_review(run.violations, run.warnings, chain),
         policy_checks |-> run.policy_checks,
         violations |-> Messages(run.violations),
         warnings |-> Messages(run.warnings),
         reasoning |-> _get_decision_reasoning(decision, run.violations, run.warnings)]

\* --------------------------------------------------------------- database
\* json.dumps(d) if d else None: an empty dict is stored as NULL
DumpOptional(d) == IF Truthy(d) THEN d ELSE NoDict
\* json.loads(col) if col else None
LoadOptional(col) == IF col.isNone THEN NoDict ELSE col

NoChain == [chain_id |-> 0]

Db(rows, queue, log) == [chains |-> rows, review_queue |-> queue, audit_log |-> log]

\* INSERT INTO reasoning_chains
save_reasoning_chain(db, chain) ==
    [db EXCEPT !.chains[chain.chain_id] =
        [chain EXCEPT !.human_modification = DumpOptional(@),
                      !.execution_result = DumpOptional(@)]]

_row_to_reasoning_chain(row) ==
    [row EXCEPT !.human_modification = LoadOptional(@),
                !.execution_result = LoadOptional(@)]

\* SELECT * FROM reasoning_chains WHERE chain_id = ?; NoChain is None
get_reasoning_chain(db, chain_id) ==
    IF chain_id \in DOMAIN db.chains /\ db.chains[chain_id] # NoChain
    THEN _row_to_reasoning_chain(db.chains[chain_id])
    ELSE NoChain

\* UPDATE reasoning_chains SET <nine columns> WHERE chain_id = ?
update_reasoning_chain(db, chain) ==
    IF chain.chain_id \in DOMAIN db.chains /\ db.chains[chain.chain_id] # NoChain
    THEN [db EXCEPT !.chains[chain.chain_id] =
            [@ EXCEPT !.governance_decision = chain.governance_decision,
                      !.reviewer_id = chain.reviewer_id,
                      !.review_timestamp = chain.review_timestamp,
                      !.human_decision = chain.human_decision,
                      !.human_rationale = chain.human_rationale,
                      !.human_modification = DumpOptional(chain.human_modification),
                      !.execution_status = chain.execution_status,
                      !.execution_result = DumpOptional(chain.execution_result),
                      !.execution_timestamp = chain.execution_timestamp]]
    ELSE db

priority_scores(priority) ==
    CASE priority = "urgent" -> 100
      [] priority = "high" -> 75
      [] priority = "normal" -> 50
      [] priority = "low" -> 25
      [] OTHER -> 50

\* INSERT INTO review_queue; the status column takes the schema's default
add_to_review_queue(db, chain_id, priority) ==
    [db EXCEPT !.review_queue = Append(@,
        [queue_id |-> Len(db.review_queue) + 1, chain_id |-> chain_id,
         priority |-> priority, priority_score |-> priority_scores(priority),
         assigned_to |-> None, status |-> "queued", completed_at |-> NoTime])]

\* UPDATE review_queue SET status = 'completed', completed_at = ? WHERE queue_id = ?
complete_review(db, queue_id, now) ==
    [db EXCEPT !.review_queue =
        [i \in 1..Len(@) |->
            IF @[i].queue_id = queue_id
            THEN [@[i] EXCEPT !.status = "completed", !.completed_at = <<now>>]
            ELSE @[i]]]

log_event_replacing_last(db, event_type, event_data, chain_id, user_id) ==
    [db EXCEPT !.audit_log =
        IF @ = <<>> THEN <<[event_type |-> event_type, event_data |-> event_data,
                            chain_id |-> chain_id, user_id |-> user_id]>>
        ELSE [@ EXCEPT ![Len(@)] = [event_type |-> event_type, event_data |-> event_data,
                                    chain_id |-> chain_id, user_id |-> user_id]]]

\* INSERT INTO audit_log
log_event(db, event_type, event_data, chain_id, user_id) ==
    [db EXCEPT !.audit_log = Append(@,
        [event_type |-> event_type, event_data |-> event_data,
         chain_id |-> chain_id, user_id |-> user_id])]

\* ---------------------------------------------------------------- runtime
\* str(action.get("amount") or action.get("value", "")).replace("M", "000000"),
\* then the first run of [\d,]+
PriorityTruthy(val) ==
    \/ val.k \in {"str", "words"}
    \/ val.k = "num" /\ val.n # 0
PriorityMagnitude(val) ==
    CASE val.k = "num" -> Size(TRUE, val.n, FALSE)
      [] val.k = "str" ->
            Size(TRUE, IF ~val.frac /\ val.suf = "M" THEN val.n * Pow10(6) ELSE val.n, FALSE)
      [] OTHER -> Size(FALSE, 0, FALSE)
PriorityAmount(parameters) ==
    IF parameters.kind # "dict" THEN Size(FALSE, 0, FALSE)
    ELSE IF parameters.amount.k = "absent" /\ parameters.value.k = "absent"
         THEN Size(FALSE, 0, FALSE)
    ELSE IF PriorityTruthy(parameters.amount) THEN PriorityMagnitude(parameters.amount)
    ELSE PriorityMagnitude(parameters.value)

_calculate_priority_urgent_on_warnings(chain, governance) ==
    IF governance.violations # <<>> \/ governance.warnings # <<>> THEN "urgent"
    ELSE LET amount == PriorityAmount(chain.selected_action.parameters)
         IN  IF amount.found /\ amount.size > PriorityHighAmount THEN "high"
             ELSE IF ScoreBelow(chain.completeness_score, 7, 10) THEN "high"
             ELSE "normal"

_calculate_priority(chain, governance) ==
    IF governance.violations # <<>> THEN "urgent"
    ELSE LET amount == PriorityAmount(chain.selected_action.parameters)
         IN  IF amount.found /\ amount.size > PriorityHighAmount THEN "high"
             ELSE IF ScoreBelow(chain.completeness_score, 7, 10) THEN "high"
             ELSE "normal"

\* What a lifecycle call was asked (op, chain_id) and what its caller got: the
\* returned chain and verdict, or the exception raised
Ret(op, chain_id, ok, error, chain, governance) ==
    [op |-> op, chain_id |-> chain_id, ok |-> ok, error |-> error, chain |-> chain,
     governance |-> governance]

NoVerdict ==
    [decision |-> "pending", requires_review |-> FALSE, policy_checks |-> <<>>,
     violations |-> <<>>, warnings |-> <<>>,
     reasoning |-> [kind |-> "none", reasons |-> <<>>]]

CaptureLogged_silently(db, chain) == [db |-> db, chain |-> chain]

\* capture_reasoning: extract, then log the extraction
CaptureLogged(db, chain) ==
    [db |-> log_event(db, "reasoning_extracted",
                [completeness |-> chain.completeness_score], chain.chain_id, None),
     chain |-> chain]
capture_reasoning(db, chain_id, now, conv, tool_call) ==
    CaptureLogged(db, extract(chain_id, now, conv, tool_call))

GovernanceMerged_without_decision(db, chain, result) ==
    [db |-> log_event(db, "governance_enforced", [decision |-> result.decision],
                chain.chain_id, None),
     chain |-> [chain EXCEPT !.policy_results = result,
                             !.requires_review = result.requires_review],
     governance |-> result]

\* enforce_governance: merge the verdict into the chain, then log it
GovernanceMerged(db, chain, result) ==
    [db |-> log_event(db, "governance_enforced", [decision |-> result.decision],
                chain.chain_id, None),
     chain |-> [chain EXCEPT !.policy_results = result,
                             !.requires_review = result.requires_review,
                             !.governance_decision = result.decision],
     governance |-> result]
enforce_governance(db, chain, cfg) == GovernanceMerged(db, chain, enforce(chain, cfg))

ReviewRequested_enqueuing_again(db, chain_id, priority) ==
    log_event(add_to_review_queue(add_to_review_queue(db, chain_id, priority),
                                  chain_id, priority),
        "review_requested",
        [queue_id |-> Len(db.review_queue) + 2, priority |-> priority], chain_id, None)

\* step 4 of process_decision: enqueue and log the review request
ReviewRequested(db, chain_id, priority) ==
    log_event(add_to_review_queue(db, chain_id, priority), "review_requested",
        [queue_id |-> Len(db.review_queue) + 1, priority |-> priority], chain_id, None)

\* steps 3 and 4 of process_decision; json.dumps of a conversation that is
\* not serializable raises in save_reasoning_chain
SavedAndQueued(db, chain, governance) ==
    IF ~chain.conversation_history.serializable
    THEN [db |-> db, ret |-> Ret("process_decision", chain.chain_id, FALSE, "TypeError", NoChain, NoVerdict)]
    ELSE [db |-> IF governance.requires_review
                 THEN ReviewRequested(save_reasoning_chain(db, chain), chain.chain_id,
                                      _calculate_priority(chain, governance))
                 ELSE save_reasoning_chain(db, chain),
          ret |-> Ret("process_decision", chain.chain_id, TRUE, "", chain, governance)]

Governed(gov) == SavedAndQueued(gov.db, gov.chain, gov.governance)
Captured(cap, cfg) == Governed(enforce_governance(cap.db, cap.chain, cfg))

\* IntentCoreRuntime.process_decision: out.db is the database afterwards,
\* out.ret what the caller gets (ok = FALSE when the save raised)
process_decision(db, chain_id, now, cfg, conv, tool_call) ==
    Captured(capture_reasoning(db, chain_id, now, conv, tool_call), cfg)

\* The assignments of submit_human_decision to the chain it loaded
HumanDecisionApplied(chain, now, reviewer_id, decision, rationale, modification) ==
    [chain EXCEPT !.reviewer_id = reviewer_id,
                  !.review_timestamp = <<now>>,
                  !.human_decision = decision,
                  !.human_rationale = rationale,
                  !.human_modification = modification,
                  !.governance_decision =
                      IF decision = "approved" THEN "approved"
                      ELSE IF decision = "rejected" THEN "rejected"
                      ELSE IF Truthy(modification) THEN "modified"
                      ELSE @]

HumanDecisionEvent(decision, rationale, modification) ==
    [decision |-> decision, rationale |-> rationale,
     has_modification |-> ~modification.isNone]

submit_human_decision_logging_first(db, chain_id, now, reviewer_id, decision, rationale, modification) ==
    LET loaded == get_reasoning_chain(db, chain_id)
        logged == log_event(db, "human_decision",
                      HumanDecisionEvent(decision, rationale, modification),
                      chain_id, reviewer_id)
    IN  IF loaded = NoChain
        THEN [db |-> logged,
              ret |-> Ret("submit_human_decision", chain_id, FALSE, "ValueError", NoChain, NoVerdict)]
        ELSE LET chain == HumanDecisionApplied(loaded, now, reviewer_id, decision,
                                                rationale, modification)
             IN  [db |-> update_reasoning_chain(logged, chain),
                  ret |-> Ret("submit_human_decision", chain_id, TRUE, "", chain, NoVerdict)]

submit_human_decision_applying_modification(db, chain_id, now, reviewer_id, decision, rationale, modification) ==
    LET loaded == get_reasoning_chain(db, chain_id)
    IN  IF loaded = NoChain
        THEN [db |-> db,
              ret |-> Ret("submit_human_decision", chain_id, FALSE, "ValueError", NoChain, NoVerdict)]
        ELSE LET applied == HumanDecisionApplied(loaded, now, reviewer_id, decision,
                                                  rationale, modification)
                 chain == IF Truthy(modification)
                          THEN [applied EXCEPT !.selected_action.parameters.amount =
                                                   Str(50, "M", FALSE)]
                          ELSE applied
             IN  [db |-> log_event(update_reasoning_chain(db, chain), "human_decision",
                             HumanDecisionEvent(decision, rationale, modification),
                             chain_id, reviewer_id),
                  ret |-> Ret("submit_human_decision", chain_id, TRUE, "", chain, NoVerdict)]

submit_human_decision_completing_review(db, chain_id, now, reviewer_id, decision, rationale, modification) ==
    LET loaded == get_reasoning_chain(db, chain_id)
    IN  IF loaded = NoChain
        THEN [db |-> db,
              ret |-> Ret("submit_human_decision", chain_id, FALSE, "ValueError", NoChain, NoVerdict)]
        ELSE LET chain == HumanDecisionApplied(loaded, now, reviewer_id, decision,
                                                rationale, modification)
                 logged == log_event(update_reasoning_chain(db, chain), "human_decision",
                               HumanDecisionEvent(decision, rationale, modification),
                               chain_id, reviewer_id)
             IN  [db |-> [logged EXCEPT !.review_queue =
                             [i \in 1..Len(@) |->
                                 IF @[i].chain_id = chain_id
                                 THEN [@[i] EXCEPT !.status = "completed",
                                                   !.completed_at = <<now>>]
                                 ELSE @[i]]],
                  ret |-> Ret("submit_human_decision", chain_id, TRUE, "", chain, NoVerdict)]

\* IntentCoreRuntime.submit_human_decision
submit_human_decision(db, chain_id, now, reviewer_id, decision, rationale, modification) ==
    LET loaded == get_reasoning_chain(db, chain_id)
    IN  IF loaded = NoChain
        THEN [db |-> db,
              ret |-> Ret("submit_human_decision", chain_id, FALSE, "ValueError", NoChain, NoVerdict)]
        ELSE LET chain == HumanDecisionApplied(loaded, now, reviewer_id, decision,
                                                rationale, modification)
             IN  [db |-> log_event(update_reasoning_chain(db, chain), "human_decision",
                             HumanDecisionEvent(decision, rationale, modification),
                             chain_id, reviewer_id),
                  ret |-> Ret("submit_human_decision", chain_id, TRUE, "", chain, NoVerdict)]

\* The assignments of record_execution to the chain it loaded
ExecutionApplied(chain, now, status, result) ==
    [chain EXCEPT !.execution_status = status,
                  !.execution_result = result,
                  !.execution_timestamp = <<now>>]

\* IntentCoreRuntime.record_execution
record_execution(db, chain_id, now, status, result) ==
    LET loaded == get_reasoning_chain(db, chain_id)
    IN  IF loaded = NoChain
        THEN [db |-> db,
              ret |-> Ret("record_execution", chain_id, FALSE, "ValueError", NoChain, NoVerdict)]
        ELSE LET chain == ExecutionApplied(loaded, now, status, result)
             IN  [db |-> log_event(update_reasoning_chain(db, chain), "execution_completed",
                             [status |-> status, result |-> result], chain_id, None),
                  ret |-> Ret("record_execution", chain_id, TRUE, "", NoChain, NoVerdict)]

\* ------------------------------------------------------------------ inputs
\* The messages list: how many turns it holds, whether json.dumps accepts it,
\* what the content of its tool turn is ("none": no tool turn) and of its
\* other turns ("text", "absent", "null", or "nontext": a non-empty list or a
\* number), and whether a metadata entry was appended to it.
Snapshot(serializable) ==
    [turns |-> 3, serializable |-> serializable, tool_content |-> "none",
     content |-> "text", metadata |-> FALSE]
Turns(tool_content, content) ==
    [Snapshot(TRUE) EXCEPT !.tool_content = tool_content, !.content = content]

NoAssistantTurn ==
    [role |-> "none", has_tool_calls |-> FALSE, tool_call |-> NoToolCall, content |-> ""]
AssistantText(content) ==
    [role |-> "assistant", has_tool_calls |-> FALSE, tool_call |-> NoToolCall,
     content |-> content]
AssistantCalls(tool_call) ==
    [role |-> "assistant", has_tool_calls |-> TRUE, tool_call |-> tool_call, content |-> ""]

Conversation(task, situation, quant, risks, rationale, options, last, snapshot) ==
    [task |-> task, situation |-> situation, quantitative_analysis |-> quant,
     risks |-> risks, rationale |-> rationale, options |-> options, last |-> last,
     snapshot |-> snapshot]

Quant(amounts, metrics) == [amounts |-> amounts, percentages |-> 0, metrics |-> metrics]

\* A match of a situation pattern is kept when longer than 20 characters and
\* one of a rationale pattern when longer than 15, so an extracted text is
\* empty or longer than that.
Situations == {Text(0, FALSE), Text(50, FALSE), Text(51, FALSE), Text(51, TRUE)}
Rationales == {Text(0, FALSE), Text(20, FALSE), Text(21, FALSE)}
Tasks == {Text(30, FALSE), Text(30, TRUE)}
Quants == {Quant(0, 0), Quant(1, 0), Quant(0, 1)}

DemoCall == ToolCall("execute_trade", TRUE,
                Params("dict", Absent, Str(90, "M", FALSE), Absent, Absent, "NVDA"))

Lasts == {NoAssistantTurn, AssistantText(""), AssistantText("I will execute this trade."),
          AssistantCalls(DemoCall)}

Conversations ==
    {Conversation(t, s, q, r, ra, o, l, Snapshot(TRUE)) :
        t \in Tasks, s \in Situations, q \in Quants, r \in 0..1,
        ra \in Rationales, o \in 0..1, l \in Lasts}

\* Conversations whose extraction is complete but for the named shortfalls
FullConversation(task, situation, risks, rationale) ==
    Conversation(task, situation, Quant(1, 0), risks, rationale, 1,
                 AssistantText("I will execute this trade."), Snapshot(TRUE))

PolicyConversations ==
    {FullConversation(t, s, r, ra) :
        t \in Tasks, s \in {Text(0, FALSE), Text(51, FALSE)}, r \in 0..1,
        ra \in {Text(0, FALSE), Text(21, FALSE)}}

Amounts ==
    {Absent, Null, Words, Num(ReviewThreshold), Num(SingleTradeMax),
     Num(SingleTradeMax + 1), Str(90, "M", FALSE), Str(150, "M", FALSE),
     Str(150, "M", TRUE), Str(1, "B", FALSE), Str(60000, "K", FALSE)}

Payloads ==
    {Params("dict", q, a, Absent, v, sy) :
        q \in {Absent, Num(100)}, a \in Amounts,
        v \in {Absent, Str(60, "M", FALSE)},
        sy \in {"absent", "nvda", "NVDA", "nonstring"}}
    \cup {Params("list", Absent, Absent, Absent, Absent, "absent")}

ToolCalls ==
    {ToolCall(n, TRUE, p) : n \in {"execute_trade", ""}, p \in Payloads}
    \cup {ToolCall("execute_trade", FALSE, NoParams)}

BasicToolCalls ==
    {NoToolCall, ToolCall("execute_trade", TRUE, NoParams), ToolCall("", TRUE, NoParams)}

\* Conversations with a turn whose content is absent, null or not text, and
\* targeted actions without or with an unparsable argument payload
MalformedConversations ==
    {[FullConversation(Text(30, FALSE), Text(51, FALSE), 1, Text(21, FALSE))
        EXCEPT !.snapshot = Turns(tc, c)] :
        tc \in {"none", "text", "absent", "null", "nontext"},
        c \in {"text", "absent", "null", "nontext"}}
MalformedToolCalls ==
    {NoToolCall, ToolCall("execute_trade", TRUE, NoParams),
     ToolCall("execute_trade", FALSE, NoParams)}

Configs ==
    {Config(sy, ac, hv) : sy \in {{}, {"NVDA"}}, ac \in {{}, {"execute_trade"}},
                          hv \in BOOLEAN}

\* ------------------------------------------------- the pure pipeline
NoValidation ==
    [is_valid |-> FALSE, completeness_score |-> Score(0, 1),
     missing_components |-> <<>>, warnings |-> <<>>]
NoRet == Ret("none", 0, TRUE, "", NoChain, NoVerdict)

LifecycleIdle ==
    /\ chains = [id \in 1..MaxChains |-> NoChain]
    /\ review_queue = <<>>
    /\ audit_log = <<>>
    /\ uuid_count = 0
    /\ clock = 0
    /\ ret = NoRet

ConcIdle ==
    /\ pc = [t \in {"review", "exec"} |-> "idle"]
    /\ local = [t \in {"review", "exec"} |-> NoChain]


Request(conv, tool_call) ==
    [conv |-> conv, tool_call |-> tool_call, messages |-> conv.snapshot]
NoRequest == [conv |-> None, tool_call |-> NoToolCall, messages |-> None]

\* FinRobotBridge(block_mode): no hook call made yet
BridgeCall(block_mode, called, allowed, reviewed, human_decision, raised) ==
    [block_mode |-> block_mode, called |-> called, allowed |-> allowed,
     reviewed |-> reviewed, human_decision |-> human_decision, raised |-> raised]
BridgeIdle == bridge = BridgeCall("review", FALSE, FALSE, FALSE, None, "")

PureIdle ==
    /\ request = NoRequest
    /\ cur = NoChain
    /\ stage = "idle"
    /\ validation = NoValidation
    /\ verdict = NoVerdict
    /\ queue_priority = None

InitPure ==
    /\ config \in Configs
    /\ LifecycleIdle
    /\ ConcIdle
    /\ BridgeIdle
    /\ \/ \E conv \in Conversations \cup PolicyConversations,
             tool_call \in ToolCalls \cup BasicToolCalls :
             /\ conv \in PolicyConversations \/ tool_call \in BasicToolCalls
             /\ request = Request(conv, tool_call)
       \/ \E conv \in MalformedConversations, tool_call \in MalformedToolCalls :
             request = Request(conv, tool_call)
    /\ cur = NoChain
    /\ stage = "requested"
    /\ validation = NoValidation
    /\ verdict = NoVerdict
    /\ queue_priority = None

\* ReasoningExtractor.extract on the caller's messages; the chain's
\* conversation_history is the caller's list itself
Extract ==
    /\ stage = "requested"
    /\ IF extract_raises(request.messages, request.tool_call)
       THEN stage' = "raised" /\ UNCHANGED cur
       ELSE /\ cur' = extract(1, 1, request.conv, request.tool_call)
            /\ stage' = "extracted"
    /\ UNCHANGED <<request, validation, verdict, queue_priority, lifecycleVars, concVars, bridgeVars>>

\* ReasoningInterceptor.intercept_before_action: extract, then append the
\* metadata entry to chain.conversation_history, which is the caller's list
InterceptBeforeAction ==
    /\ stage = "requested"
    /\ \E metadata \in {NoDict, Dict({"source"})} :
          IF extract_raises(request.messages, request.tool_call)
          THEN stage' = "raised" /\ UNCHANGED <<cur, request>>
          ELSE LET chain == extract(1, 1, request.conv, request.tool_call)
                   history == IF Truthy(metadata)
                              THEN [chain.conversation_history EXCEPT
                                        !.turns = @ + 1, !.metadata = TRUE]
                              ELSE chain.conversation_history
               IN  /\ cur' = [chain EXCEPT !.conversation_history = history]
                   /\ request' = [request EXCEPT !.messages = history]
                   /\ stage' = "extracted"
    /\ UNCHANGED <<validation, verdict, queue_priority, lifecycleVars, concVars, bridgeVars>>

\* ReasoningExtractor.validate_completeness on the extracted chain
Validate ==
    /\ stage = "extracted"
    /\ validation' = validate_completeness(cur)
    /\ stage' = "validated"
    /\ UNCHANGED <<request, cur, verdict, queue_priority, lifecycleVars, concVars, bridgeVars>>

\* GovernanceEngine.enforce on the validated chain
Enforce ==
    /\ stage = "validated"
    /\ verdict' = enforce(cur, config)
    /\ stage' = "enforced"
    /\ UNCHANGED <<request, cur, validation, queue_priority, lifecycleVars, concVars, bridgeVars>>

\* step 4 of process_decision on the pure pipeline: the priority the record
\* is enqueued with when the verdict requires review
Prioritize ==
    /\ stage = "enforced"
    /\ verdict.requires_review
    /\ queue_priority' = _calculate_priority(cur, verdict)
    /\ stage' = "enqueued"
    /\ UNCHANGED <<request, cur, validation, verdict, lifecycleVars, concVars, bridgeVars>>

NextPure == Extract \/ InterceptBeforeAction \/ Validate \/ Enforce \/ Prioritize

PureSpec == InitPure /\ [][NextPure]_vars

\* ------------------------------------------------------ claims C4, C5, C6
\* The checks of the verdict that returned a failing result, and those among
\* them that are blocking (autoBlock)
FailedChecks ==
    {i \in 1..Len(verdict.policy_checks) : verdict.policy_checks[i].result.status = "failed"}
BlockingFailedChecks ==
    {i \in FailedChecks :
        \E j \in 1..Len(policies) : /\ policies[j].name = verdict.policy_checks[i].policy
                                    /\ policies[j].auto_block}
\* The checks whose evaluation raised: they left no entry in the verdict
RaisedChecks ==
    {j \in 1..Len(policies) :
        \A i \in 1..Len(verdict.policy_checks) :
            verdict.policy_checks[i].policy # policies[j].name}

\* C4 as stated: the verdict is rejected iff at least one blocking check
\* failed, approved iff zero checks failed, and review_required otherwise.
C4_DecisionByFailedChecks ==
    stage = "enforced" =>
        /\ verdict.decision = "rejected" <=> BlockingFailedChecks # {}
        /\ verdict.decision = "approved" <=> FailedChecks = {}
        /\ verdict.decision \in {"rejected", "approved", "review_required"}

\* C4 amended: the verdict is rejected iff at least one blocking check failed,
\* approved iff no check failed and no check's evaluation raised, and
\* review_required otherwise.
C4_DecisionByFailedOrRaisedChecks ==
    stage = "enforced" =>
        /\ verdict.decision = "rejected" <=> BlockingFailedChecks # {}
        /\ verdict.decision = "approved" <=> (FailedChecks = {} /\ RaisedChecks = {})
        /\ verdict.decision \in {"rejected", "approved", "review_required"}

\* A verdict for which no check failed but one raised, and one with only a
\* non-blocking failure
C4_Witness ==
    /\ stage = "enforced"
    /\ FailedChecks = {}
    /\ RaisedChecks # {}
    /\ verdict.decision = "review_required"

\* C5: requiresReview is true iff the verdict has a violation or a warning
\* or the completeness score is below 0.8; a clean policy run on a record
\* of score 0.6 is approved and still requires review.
C5_RequiresReview ==
    stage = "enforced" =>
        /\ verdict.requires_review <=>
              \/ verdict.violations # <<>>
              \/ verdict.warnings # <<>>
              \/ cur.completeness_score.num * 10 < 8 * cur.completeness_score.den
        /\ ( /\ verdict.violations = <<>>
             /\ verdict.warnings = <<>>
             /\ cur.completeness_score = Score(3, 5) )
           => (verdict.decision = "approved" /\ verdict.requires_review)

C5_Witness ==
    /\ stage = "enforced"
    /\ cur.completeness_score = Score(3, 5)
    /\ verdict.violations = <<>>
    /\ verdict.warnings = <<>>
    /\ verdict.decision = "approved"
    /\ verdict.requires_review

ClaimedRequired == <<"situation", "quantitative_analysis", "risks", "rationale", "action">>
SatisfiedOf(chain) ==
    {i \in 1..Len(ClaimedRequired) : components(chain)[ClaimedRequired[i]]}

\* C6: the score is (satisfied required components)/5, in [0,1]; the missing
\* list is the unsatisfied required components in the fixed order; isValid
\* iff score >= 0.6; options change the warnings only.
C6_ValidateScore ==
    stage \in {"validated", "enforced"} =>
        /\ validation.completeness_score = Score(Cardinality(SatisfiedOf(cur)), 5)
        /\ 0 <= validation.completeness_score.num
        /\ validation.completeness_score.num <= validation.completeness_score.den
        /\ validation.missing_components =
              SelectSeq(ClaimedRequired, LAMBDA c : ~components(cur)[c])
        /\ validation.is_valid <=> Cardinality(SatisfiedOf(cur)) * 10 >= 6 * 5
        /\ \A o \in 0..1 :
              LET other == validate_completeness([cur EXCEPT !.options = o])
              IN  /\ other.completeness_score = validation.completeness_score
                  /\ other.missing_components = validation.missing_components
                  /\ other.is_valid = validation.is_valid
                  /\ (o = 0) <=> (other.warnings # <<>>)

C6_Witness ==
    /\ stage = "validated"
    /\ cur.options > 0
    /\ validation.completeness_score = Score(3, 5)
    /\ validation.missing_components = <<"situation", "risks">>
    /\ validation.is_valid
    /\ validation.warnings = <<>>

\* ------------------------------------------------- the decision lifecycle
\* Inputs of the lifecycle calls.  The conversations give every verdict:
\* approved without review, approved with review (score 0.6), review_required
\* (earnings warning, or a check that raises) and rejected.
LifecycleConversations ==
    {FullConversation(Text(30, FALSE), Text(51, FALSE), 1, Text(21, FALSE)),
     FullConversation(Text(30, TRUE), Text(51, FALSE), 1, Text(21, FALSE)),
     FullConversation(Text(30, FALSE), Text(0, FALSE), 0, Text(21, FALSE)),
     [FullConversation(Text(30, FALSE), Text(51, FALSE), 1, Text(21, FALSE))
        EXCEPT !.snapshot = Snapshot(FALSE)]}

LifecycleToolCalls ==
    {ToolCall("execute_trade", TRUE,
        Params("dict", Absent, a, Absent, Absent, "NVDA")) :
        a \in {Num(ReviewThreshold), Str(150, "M", FALSE), Null}}

Reviewers == {"sarah_chen"}
\* "rejectd" is what FinRobotBridge._cli_review returns for "reject"
Decisions == {"approved", "rejected", "modified", "rejectd"}
Modifications == {NoDict, EmptyDict, Dict({"amount"})}
Statuses == {"completed", "failed"}
ExecutionResults == {NoDict, Dict({"executed_amount"})}

CurrentDb == Db(chains, review_queue, audit_log)

Committed(out) ==
    /\ chains' = out.db.chains
    /\ review_queue' = out.db.review_queue
    /\ audit_log' = out.db.audit_log
    /\ ret' = out.ret

Init ==
    /\ config \in {DefaultConfig}
    /\ LifecycleIdle
    /\ ConcIdle
    /\ BridgeIdle
    /\ PureIdle

ProcessDecision ==
    /\ clock < MaxCalls
    /\ uuid_count < MaxChains
    /\ \E conv \in LifecycleConversations, tool_call \in LifecycleToolCalls :
          \E out \in {process_decision(CurrentDb, uuid_count + 1, clock + 1, config,
                                       conv, tool_call)} : Committed(out)
    /\ uuid_count' = uuid_count + 1
    /\ clock' = clock + 1
    /\ UNCHANGED <<config, concVars, pureVars, bridgeVars>>

SubmitHumanDecision ==
    /\ clock < MaxCalls
    /\ \E chain_id \in 1..MaxChains, reviewer_id \in Reviewers, decision \in Decisions,
          modification \in Modifications :
          \E out \in {submit_human_decision(CurrentDb, chain_id, clock + 1, reviewer_id,
                                            decision, "sound", modification)} : Committed(out)
    /\ clock' = clock + 1
    /\ UNCHANGED <<config, uuid_count, concVars, pureVars, bridgeVars>>

RecordExecution ==
    /\ clock < MaxCalls
    /\ \E chain_id \in 1..MaxChains, status \in Statuses, result \in ExecutionResults :
          \E out \in {record_execution(CurrentDb, chain_id, clock + 1, status, result)} :
              Committed(out)
    /\ clock' = clock + 1
    /\ UNCHANGED <<config, uuid_count, concVars, pureVars, bridgeVars>>

Next == ProcessDecision \/ SubmitHumanDecision \/ RecordExecution

Spec == Init /\ [][Next]_vars

\* ------------------------------------- concurrent callers on one database
\* Two API requests, "review" (submit_human_decision) and "exec"
\* (record_execution), run in worker threads over a database that already
\* holds one processed record.  Each database call is one transaction; the
\* assignments to the loaded chain object are local to the caller.
InitConc ==
    /\ config \in {DefaultConfig}
    /\ \E conv \in {c \in LifecycleConversations : c.snapshot.serializable},
          tool_call \in LifecycleToolCalls :
          \E out \in {process_decision(
                          Db([id \in 1..MaxChains |-> NoChain], <<>>, <<>>),
                          1, 1, config, conv, tool_call)} :
              /\ chains = out.db.chains
              /\ review_queue = out.db.review_queue
              /\ audit_log = out.db.audit_log
              /\ ret = out.ret
    /\ uuid_count = 1
    /\ clock = 1
    /\ ConcIdle
    /\ BridgeIdle
    /\ PureIdle

\* submit_human_decision up to its assignments: get_reasoning_chain, the
\* not-found check, and the update of the loaded object
ReviewGet ==
    /\ pc["review"] = "idle"
    /\ \E chain_id \in 1..MaxChains, reviewer_id \in Reviewers, decision \in Decisions,
          modification \in Modifications :
          LET loaded == get_reasoning_chain(CurrentDb, chain_id)
          IN  IF loaded = NoChain
              THEN /\ pc' = [pc EXCEPT !["review"] = "raised"]
                   /\ UNCHANGED local
              ELSE /\ local' = [local EXCEPT !["review"] =
                          HumanDecisionApplied(loaded, clock + 1, reviewer_id, decision,
                                               "sound", modification)]
                   /\ pc' = [pc EXCEPT !["review"] = "update"]
    /\ clock' = clock + 1
    /\ UNCHANGED <<config, chains, review_queue, audit_log, uuid_count, ret, pureVars, bridgeVars>>

\* self.db.update_reasoning_chain(chain) of submit_human_decision
ReviewUpdate ==
    /\ pc["review"] = "update"
    /\ chains' = update_reasoning_chain(CurrentDb, local["review"]).chains
    /\ pc' = [pc EXCEPT !["review"] = "log"]
    /\ UNCHANGED <<config, review_queue, audit_log, uuid_count, clock, ret, local, pureVars, bridgeVars>>

\* self.db.log_event("human_decision", ...) and the return
ReviewLog ==
    /\ pc["review"] = "log"
    /\ audit_log' = log_event(CurrentDb, "human_decision",
                         HumanDecisionEvent(local["review"].human_decision,
                                            local["review"].human_rationale,
                                            local["review"].human_modification),
                         local["review"].chain_id, local["review"].reviewer_id).audit_log
    /\ pc' = [pc EXCEPT !["review"] = "done"]
    /\ UNCHANGED <<config, chains, review_queue, uuid_count, clock, ret, local, pureVars, bridgeVars>>

\* record_execution up to its assignments
ExecGet ==
    /\ pc["exec"] = "idle"
    /\ \E chain_id \in 1..MaxChains, status \in Statuses, result \in ExecutionResults :
          LET loaded == get_reasoning_chain(CurrentDb, chain_id)
          IN  IF loaded = NoChain
              THEN /\ pc' = [pc EXCEPT !["exec"] = "raised"]
                   /\ UNCHANGED local
              ELSE /\ local' = [local EXCEPT !["exec"] =
                          ExecutionApplied(loaded, clock + 1, status, result)]
                   /\ pc' = [pc EXCEPT !["exec"] = "update"]
    /\ clock' = clock + 1
    /\ UNCHANGED <<config, chains, review_queue, audit_log, uuid_count, ret, pureVars, bridgeVars>>

\* self.db.update_reasoning_chain(chain) of record_execution
ExecUpdate ==
    /\ pc["exec"] = "update"
    /\ chains' = update_reasoning_chain(CurrentDb, local["exec"]).chains
    /\ pc' = [pc EXCEPT !["exec"] = "log"]
    /\ UNCHANGED <<config, review_queue, audit_log, uuid_count, clock, ret, local, pureVars, bridgeVars>>

\* self.db.log_event("execution_completed", ...) and the return
ExecLog ==
    /\ pc["exec"] = "log"
    /\ audit_log' = log_event(CurrentDb, "execution_completed",
                         [status |-> local["exec"].execution_status,
                          result |-> local["exec"].execution_result],
                         local["exec"].chain_id, None).audit_log
    /\ pc' = [pc EXCEPT !["exec"] = "done"]
    /\ UNCHANGED <<config, chains, review_queue, uuid_count, clock, ret, local, pureVars, bridgeVars>>

NextConc ==
    ReviewGet \/ ReviewUpdate \/ ReviewLog \/ ExecGet \/ ExecUpdate \/ ExecLog

ConcSpec == InitConc /\ [][NextConc]_vars

\* ----------------------------------------- claims C1, C2, C7, C8, C9, C10
Stored(id) == id \in DOMAIN chains /\ chains[id] # NoChain

\* The step is a call of op that returned normally
Returned(op) == ret'.op = op /\ ret'.ok

AllowedDecisionChange(before, after) ==
    \/ after = before
    \/ before = "pending" /\ after \in {"approved", "rejected", "review_required"}
    \/ before = "review_required" /\ after \in {"approved", "rejected", "modified"}

\* C1: a stored record's governance decision changes only along
\* pending -> {approved, rejected, review_required} and, from review_required
\* only, -> {approved, rejected, modified}; an approved, rejected or modified
\* decision never changes again.
C1_DecisionTransitions ==
    [][\A id \in 1..MaxChains :
          Stored(id) =>
              AllowedDecisionChange(chains[id].governance_decision,
                                    chains'[id].governance_decision)]_vars

ExecutionFields(row) ==
    <<row.execution_status, row.execution_result, row.execution_timestamp>>

\* C2: record_execution writes execution fields only on a record whose
\* governance decision is approved or modified at that time.
C2_ExecutionOnlyAfterApproval ==
    [][\A id \in 1..MaxChains :
          (Stored(id) /\ ExecutionFields(chains'[id]) # ExecutionFields(chains[id]))
              => chains[id].governance_decision \in {"approved", "modified"}]_vars

\* C7: a successful submit_human_decision with a non-empty modification map
\* leaves the governance decision modified, whatever the decision string.
C7_ModificationYieldsModified ==
    (ret.op = "submit_human_decision" /\ ret.ok /\ Truthy(ret.chain.human_modification))
        => /\ ret.chain.governance_decision = "modified"
           /\ chains[ret.chain_id].governance_decision = "modified"

\* C8: a successful submit_human_decision on a record in review_required
\* leaves it approved, rejected or modified, never review_required.
C8_ReviewRequiredIsLeft ==
    [][(/\ Returned("submit_human_decision")
        /\ Stored(ret'.chain_id)
        /\ chains[ret'.chain_id].governance_decision = "review_required")
          => chains'[ret'.chain_id].governance_decision
                \in {"approved", "rejected", "modified"}]_vars

\* C9: submit_human_decision and record_execution with an identifier for
\* which no record is stored fail with the not-found error and leave the
\* stored records, the review queue and the audit log unchanged.
C9_UnknownIdFails ==
    [][(/\ ret'.op \in {"submit_human_decision", "record_execution"}
        /\ ~Stored(ret'.chain_id))
          => /\ ~ret'.ok
             /\ ret'.error = "ValueError"
             /\ UNCHANGED <<chains, review_queue, audit_log>>]_vars

C9_Witness ==
    /\ ret.op \in {"submit_human_decision", "record_execution"}
    /\ ~Stored(ret.chain_id)
    /\ ~ret.ok
    /\ \E id \in 1..MaxChains : Stored(id)
    /\ audit_log # <<>>

FrameFields ==
    {"chain_id", "timestamp", "agent_id", "agent_role", "task", "conversation_history",
     "situation", "quantitative_analysis", "options", "selected_action", "rationale",
     "risks", "completeness_score", "missing_components", "policy_results",
     "requires_review"}

\* C10: a successful submit_human_decision sets the reviewer identifier and
\* the review timestamp and leaves identity, provenance, extracted fields,
\* completeness score, missing components, policy results and the
\* requires-review flag as they were, in the returned record and in storage.
C10_HumanDecisionFrame ==
    [][Returned("submit_human_decision") =>
          LET id == ret'.chain_id
          IN  /\ ret'.chain.reviewer_id \in Reviewers
              /\ ret'.chain.review_timestamp = <<clock'>>
              /\ chains'[id].reviewer_id = ret'.chain.reviewer_id
              /\ chains'[id].review_timestamp = ret'.chain.review_timestamp
              /\ \A f \in FrameFields :
                    /\ chains'[id][f] = chains[id][f]
                    /\ ret'.chain[f] = chains[id][f]]_vars

C10_Witness ==
    /\ ret.op = "submit_human_decision"
    /\ ret.ok
    /\ Truthy(ret.chain.human_modification)
    /\ ret.chain.reviewer_id = "sarah_chen"
    /\ chains[ret.chain_id].review_timestamp = <<clock>>
    /\ chains[ret.chain_id].selected_action = ret.chain.selected_action
    /\ chains[ret.chain_id].selected_action.parameters.amount = Str(150, "M", FALSE)

\* ------------------------------------------------------------- claim C3
\* C3: when a submit_human_decision and a record_execution on the same
\* record have both returned, the stored record holds the human-review
\* fields written by the first and the execution fields written by the
\* second, under every interleaving of their get and update steps.
C3_NoLostUpdate ==
    (pc["review"] = "done" /\ pc["exec"] = "done")
        => LET row == chains[local["review"].chain_id]
           IN  /\ row.reviewer_id = local["review"].reviewer_id
               /\ row.review_timestamp = local["review"].review_timestamp
               /\ row.human_decision = local["review"].human_decision
               /\ row.human_rationale = local["review"].human_rationale
               /\ row.execution_status = local["exec"].execution_status
               /\ row.execution_timestamp = local["exec"].execution_timestamp

\* ------------------------------------------------------------ claim C11
QueueEntries(queue, id) == {i \in 1..Len(queue) : queue[i].chain_id = id}

C12_UrgentIffViolation ==
    stage = "enqueued" => (queue_priority = "urgent" <=> verdict.violations # <<>>)

\* An enqueued record with a violation, and so urgent, whose amount alone
\* would not make it high
C12_Witness ==
    /\ stage = "enqueued"
    /\ verdict.violations # <<>>
    /\ queue_priority = "urgent"
    /\ ~PriorityAmount(cur.selected_action.parameters).found

\* C13: for every enqueued record whose verdict has no violation, the
\* priority is high if and only if the trade magnitude the policy engine
\* extracts (first of quantity, amount, size, value) exceeds 50,000,000 or the
\* completeness score is below 0.7, and normal otherwise.
C13_HighByPolicyMagnitude ==
    (stage = "enqueued" /\ verdict.violations = <<>>) =>
        LET trade_size == TradeSize(cur.selected_action.parameters)
            high == \/ trade_size.found /\ trade_size.size > 50000000
                    \/ cur.completeness_score.num * 10 < 7 * cur.completeness_score.den
        IN  /\ queue_priority = "high" <=> high
            /\ queue_priority = "normal" <=> ~high

\* ------------------------------------------------------------ claim C14
EventsOfType(log, event_type, id) ==
    {i \in 1..Len(log) : log[i].event_type = event_type /\ log[i].chain_id = id}

\* C14: each process_decision call appends exactly one extraction event and
\* exactly one governance-enforced event for the new record, and exactly one
\* review-requested event if the record was enqueued and none otherwise; each
\* successful submit_human_decision appends exactly one human-decision event
\* and each successful record_execution exactly one execution event.
C14_AuditEventsPerCall ==
    [][LET n == Len(audit_log)
           new == SubSeq(audit_log', n + 1, Len(audit_log'))
           id == ret'.chain_id
           enqueued == Len(review_queue') > Len(review_queue)
       IN  /\ Len(audit_log') >= n
           /\ SubSeq(audit_log', 1, n) = audit_log
           /\ ret'.op = "process_decision" =>
                 /\ Cardinality(EventsOfType(new, "reasoning_extracted", id)) = 1
                 /\ Cardinality(EventsOfType(new, "governance_enforced", id)) = 1
                 /\ Cardinality(EventsOfType(new, "review_requested", id)) =
                       IF enqueued THEN 1 ELSE 0
                 /\ Len(new) = IF enqueued THEN 3 ELSE 2
                 /\ enqueued <=> QueueEntries(review_queue', id) # {}
           /\ Returned("submit_human_decision") =>
                 /\ Len(new) = 1
                 /\ Cardinality(EventsOfType(new, "human_decision", id)) = 1
           /\ Returned("record_execution") =>
                 /\ Len(new) = 1
                 /\ Cardinality(EventsOfType(new, "execution_completed", id)) = 1]_vars

\* An enqueued record that was then decided and executed: five events
C14_Witness ==
    /\ ret.op = "record_execution" /\ ret.ok
    /\ QueueEntries(review_queue, ret.chain_id) # {}
    /\ Len(audit_log) = 5
    /\ [i \in 1..5 |-> audit_log[i].event_type] =
          <<"reasoning_extracted", "governance_enforced", "review_requested",
            "human_decision", "execution_completed">>

\* ------------------------------------------------------------ claim C15
\* C15: in every reachable state, including after a failed save, every
\* audit event that carries a record identifier refers to a record that is
\* present in storage.  (Every event the runtime logs carries one.)
C15_AuditRefersToStored ==
    \A i \in 1..Len(audit_log) : Stored(audit_log[i].chain_id)

\* ------------------------------------- the storage manager called directly
\* The operations of DatabaseManager that write, called by any client of the
\* store, next to the lifecycle calls of the runtime.
DbReturned(op, id) == Ret(op, id, TRUE, "", NoChain, NoVerdict)

DbSaveReasoningChain ==
    /\ clock < MaxCalls
    /\ uuid_count < MaxChains
    /\ \E conv \in {FullConversation(Text(30, FALSE), Text(51, FALSE), 1, Text(21, FALSE))} :
          \E out \in {[db |-> save_reasoning_chain(CurrentDb,
                                  extract(uuid_count + 1, clock + 1, conv, DemoCall)),
                        ret |-> DbReturned("save_reasoning_chain", uuid_count + 1)]} :
              Committed(out)
    /\ uuid_count' = uuid_count + 1
    /\ clock' = clock + 1
    /\ UNCHANGED <<config, concVars, pureVars, bridgeVars>>

DbUpdateReasoningChain ==
    /\ clock < MaxCalls
    /\ \E chain_id \in 1..MaxChains, status \in {"executing"} :
          /\ Stored(chain_id)
          /\ \E out \in {[db |-> update_reasoning_chain(CurrentDb,
                                    ExecutionApplied(get_reasoning_chain(CurrentDb, chain_id),
                                                     clock + 1, status, NoDict)),
                           ret |-> DbReturned("update_reasoning_chain", chain_id)]} :
                 Committed(out)
    /\ clock' = clock + 1
    /\ UNCHANGED <<config, uuid_count, concVars, pureVars, bridgeVars>>

DbAddToReviewQueue ==
    /\ clock < MaxCalls
    /\ \E chain_id \in 1..MaxChains, p \in {"low"} :
          \E out \in {[db |-> add_to_review_queue(CurrentDb, chain_id, p),
                        ret |-> DbReturned("add_to_review_queue", chain_id)]} :
              Committed(out)
    /\ clock' = clock + 1
    /\ UNCHANGED <<config, uuid_count, concVars, pureVars, bridgeVars>>

DbCompleteReview ==
    /\ clock < MaxCalls
    /\ \E queue_id \in 1..(Len(review_queue) + 1) :
          \E out \in {[db |-> complete_review(CurrentDb, queue_id, clock + 1),
                        ret |-> DbReturned("complete_review", queue_id)]} :
              Committed(out)
    /\ clock' = clock + 1
    /\ UNCHANGED <<config, uuid_count, concVars, pureVars, bridgeVars>>

DbLogEvent ==
    /\ clock < MaxCalls
    /\ \E chain_id \in 1..MaxChains :
          \E out \in {[db |-> log_event(CurrentDb, "custom", [note |-> "n"], chain_id, None),
                        ret |-> DbReturned("log_event", chain_id)]} :
              Committed(out)
    /\ clock' = clock + 1
    /\ UNCHANGED <<config, uuid_count, concVars, pureVars, bridgeVars>>

NextStore ==
    \/ ProcessDecision \/ SubmitHumanDecision \/ RecordExecution
    \/ DbSaveReasoningChain \/ DbUpdateReasoningChain \/ DbAddToReviewQueue
    \/ DbCompleteReview \/ DbLogEvent

StoreSpec == Init /\ [][NextStore]_vars

\* ------------------------------------------------------------ claim C16
\* C16: the audit log is append-only: across every operation of the runtime
\* and of the storage manager the log before the operation is a prefix of
\* the log after it; no audit event is updated or deleted.
C16_AuditLogAppendOnly ==
    [][/\ Len(audit_log') >= Len(audit_log)
       /\ SubSeq(audit_log', 1, Len(audit_log)) = audit_log]_vars

\* A log of a processed record's events and a directly logged event, after
\* a queue entry was completed
C16_Witness ==
    /\ ret.op = "complete_review"
    /\ \E i \in 1..Len(review_queue) : review_queue[i].status = "completed"
    /\ Len(audit_log) >= 4
    /\ audit_log[Len(audit_log)].event_type = "custom"

\* ------------------------------------------------------ claims C17, C18
\* C17: extract never raises, whatever the conversation: not for turns whose
\* content is absent, null or not text (a tool turn with null content), not
\* for a targeted action with a missing or unparsable argument payload.
C17_ExtractNeverRaises == stage # "raised"

\* C18: a record's conversation snapshot is never changed after the record
\* is created, by extraction or by interception with metadata, and the
\* caller's conversation list is left as it was passed.
C18_SnapshotUnchanged ==
    stage \in {"extracted", "validated", "enforced", "enqueued"} =>
        /\ cur.conversation_history = request.conv.snapshot
        /\ request.messages = request.conv.snapshot

\* ------------------------------------------------------ claims C19, C20
\* The outcome of a named check in the verdict: "passed", "failed", or
\* "raised" when the check left no entry
CheckStatus(name) ==
    IF \E i \in 1..Len(verdict.policy_checks) : verdict.policy_checks[i].policy = name
    THEN LET i == CHOOSE i \in 1..Len(verdict.policy_checks) :
                      verdict.policy_checks[i].policy = name
         IN  verdict.policy_checks[i].result.status
    ELSE "raised"

\* The record has amount "$90M", its task or situation mentions earnings, its
\* completeness is at least 0.8, and the configuration is the default one
Amount90MBeforeEarnings ==
    /\ stage \in {"enforced", "enqueued"}
    /\ config = DefaultConfig
    /\ cur.selected_action.parameters.kind = "dict"
    /\ cur.selected_action.parameters.amount = Str(90, "M", FALSE)
    /\ cur.task.earnings \/ cur.situation.earnings
    /\ cur.completeness_score.num * 10 >= 8 * cur.completeness_score.den

ReviewRequiredWithTwoWarnings ==
    /\ CheckStatus("trade_size_limit") = "passed"
    /\ CheckStatus("blacklist_check") = "passed"
    /\ CheckStatus("completeness_check") = "passed"
    /\ CheckStatus("pre_earnings_review") = "failed"
    /\ CheckStatus("high_value_review") = "failed"
    /\ verdict.violations = <<>>
    /\ verdict.warnings = <<"high_value_requires_review", "before_earnings">>
    /\ verdict.decision = "review_required"
    /\ verdict.requires_review
    /\ stage = "enqueued" => queue_priority = "high"

\* C19 as stated: for a record whose selected action carries amount $90M,
\* whose task or situation mentions earnings and whose completeness is at
\* least 0.8, under the default configuration, the trade-size, blacklist and
\* completeness checks pass, the pre-earnings and high-value checks fail as
\* warnings, the decision is review_required, requires_review is true and the
\* queue priority is high.
C19_Amount90MScenario == Amount90MBeforeEarnings => ReviewRequiredWithTwoWarnings

\* C19 amended: the same, for a record whose amount $90M is the magnitude the
\* policy engine reads (no quantity key before it) and whose symbol, if
\* present, is text.
C19_Magnitude90MScenario ==
    ( /\ Amount90MBeforeEarnings
      /\ cur.selected_action.parameters.quantity = Absent
      /\ cur.selected_action.parameters.symbol # "nonstring" )
        => ReviewRequiredWithTwoWarnings

\* The demo proposal, enqueued
C19_Witness ==
    /\ Amount90MBeforeEarnings
    /\ stage = "enqueued"
    /\ cur.selected_action.parameters.quantity = Absent
    /\ cur.selected_action.parameters.symbol = "NVDA"
    /\ cur.completeness_score = Score(4, 5)
    /\ queue_priority = "high"
    /\ verdict.decision = "review_required"

\* C20: for a record whose selected action carries magnitude $150M, under the
\* default trade limits (single-trade maximum $100M), enforce yields decision
\* rejected and requires_review true, with a violation message citing the
\* exceeded maximum, whatever the other checks return.
C20_Magnitude150MRejected ==
    ( /\ stage \in {"enforced", "enqueued"}
      /\ config.trade_limits = DefaultConfig.trade_limits
      /\ TradeSize(cur.selected_action.parameters) = Size(TRUE, 150000000, FALSE) )
        => /\ verdict.decision = "rejected"
           /\ verdict.requires_review
           /\ \E i \in 1..Len(verdict.violations) : verdict.violations[i] = "exceeds_maximum"
           /\ CheckStatus("trade_size_limit") = "failed"

\* A $150M record under the default configuration whose blacklist check
\* raised and whose pre-earnings check failed
C20_Witness ==
    /\ stage = "enforced"
    /\ config = DefaultConfig
    /\ TradeSize(cur.selected_action.parameters) = Size(TRUE, 150000000, FALSE)
    /\ CheckStatus("blacklist_check") = "raised"
    /\ CheckStatus("pre_earnings_review") = "failed"
    /\ verdict.decision = "rejected"
    /\ verdict.violations = <<"exceeds_maximum">>

\* ------------------------------------------------------------ claim C21
\* C21: every record that process_decision persists carries the verdict:
\* its stored policy results, requires-review flag and governance decision
\* equal those of the returned verdict, so no record in storage has
\* governance decision pending.
C21_VerdictMergedBeforePersist ==
    [][/\ Returned("process_decision") =>
             LET row == chains'[ret'.chain_id]
             IN  /\ row # NoChain
                 /\ row.policy_results = ret'.governance
                 /\ row.requires_review = ret'.governance.requires_review
                 /\ row.governance_decision = ret'.governance.decision
                 /\ ret'.governance = enforce(ret'.chain, config)
       /\ \A id \in 1..MaxChains :
             chains'[id] # NoChain => chains'[id].governance_decision # "pending"]_vars

\* A record just persisted with a rejecting verdict
C21_Witness ==
    /\ ret.op = "process_decision" /\ ret.ok
    /\ Stored(ret.chain_id)
    /\ chains[ret.chain_id].policy_results = ret.governance
    /\ chains[ret.chain_id].governance_decision = "rejected"
    /\ chains[ret.chain_id].policy_results.violations = <<"exceeds_maximum">>

\* ------------------------------------------------------------ claim C22
\* C22: in every reachable state each stored record has human decision unset
\* or one of approved, rejected, modified, and execution status one of
\* pending, executing, completed, failed, for every input submit_human_decision
\* and record_execution accept, the decisions of the CLI review included.
C22_EnumRanges ==
    \A id \in 1..MaxChains :
        Stored(id) =>
            /\ chains[id].human_decision \in {None, "approved", "rejected", "modified"}
            /\ chains[id].execution_status \in {"pending", "executing", "completed", "failed"}

\* ------------------------------------------------------------ claim C23
\* C23: extract chooses the selected action thus: a supplied targeted action
\* is used (function name and parsed parameters, or {raw: payload} when the
\* payload does not parse) whatever the conversation contains; otherwise the
\* most recent assistant turn decides: its proposed action if it has one, else
\* a message-type action with its text; with no assistant turn the action is
\* tagged unknown.
C23_ActionSelection ==
    stage = "extracted" =>
        LET targeted == request.tool_call
            last == request.conv.last
            action == cur.selected_action
        IN  IF targeted.present
            THEN /\ action.type = "tool_call"
                 /\ action.function = targeted.name
                 /\ action.parameters = IF targeted.parses THEN targeted.payload
                                        ELSE RawParams
            ELSE IF last.role = "assistant" /\ last.has_tool_calls
            THEN /\ action.type = "tool_call"
                 /\ action.function = last.tool_call.name
                 /\ action.parameters = last.tool_call.payload
            ELSE IF last.role = "assistant"
            THEN action.type = "message" /\ action.content = last.content
            ELSE action.type = "unknown"

\* A supplied targeted action wins over the proposed action of the last
\* assistant turn
C23_Witness ==
    /\ stage = "extracted"
    /\ request.tool_call = ToolCall("", TRUE, NoParams)
    /\ request.conv.last = AssistantCalls(DemoCall)
    /\ cur.selected_action.function = ""
    /\ cur.selected_action.parameters = NoParams

\* ------------------------------------------------------------ claim C24
\* The checks whose evaluation on the record errors
ErroringChecks ==
    {j \in 1..Len(policies) : check_function(policies[j].name, cur, config).status = "raised"}

\* C24: enforce never raises: a check whose evaluation errors contributes
\* exactly one warning and no violation, every other check is still evaluated
\* in the fixed order, and the decision is then not approved.
C24_CheckErrorsIsolated ==
    stage = "enforced" =>
        LET evaluated == SelectSeq([j \in 1..Len(policies) |-> j],
                                   LAMBDA j : j \notin ErroringChecks)
        IN  /\ verdict.decision \in {"approved", "rejected", "review_required"}
            /\ Cardinality({i \in 1..Len(verdict.warnings) :
                               verdict.warnings[i] = "policy_check_failed"})
                  = Cardinality(ErroringChecks)
            /\ Len(verdict.violations) = Cardinality(
                  {j \in 1..Len(policies) :
                      /\ check_function(policies[j].name, cur, config).status = "failed"
                      /\ policies[j].severity = "error"})
            /\ Len(verdict.warnings) = Cardinality(ErroringChecks) + Cardinality(
                  {j \in 1..Len(policies) :
                      /\ check_function(policies[j].name, cur, config).status = "failed"
                      /\ policies[j].severity = "warning"})
            /\ Len(verdict.policy_checks) = Len(evaluated)
            /\ \A i \in 1..Len(evaluated) :
                  /\ verdict.policy_checks[i].policy = policies[evaluated[i]].name
                  /\ verdict.policy_checks[i].result =
                        check_function(policies[evaluated[i]].name, cur, config)
            /\ ErroringChecks # {} => verdict.decision # "approved"

\* The trade-size and high-value checks errored on a null amount, the other
\* three were evaluated, and the pre-earnings check among them failed
C24_Witness ==
    /\ stage = "enforced"
    /\ ErroringChecks = {1, 3}
    /\ [i \in 1..Len(verdict.policy_checks) |-> verdict.policy_checks[i].policy]
          = <<"blacklist_check", "pre_earnings_review", "completeness_check">>
    /\ verdict.warnings = <<"policy_check_failed", "policy_check_failed", "before_earnings">>
    /\ verdict.violations = <<>>
    /\ verdict.decision = "review_required"

\* ------------------------------------------------------------ claim C25
\* The value under the first key present among quantity, amount, size, value
FirstMagnitudeValue(parameters) ==
    IF parameters.kind # "dict" THEN Absent
    ELSE LET keys == <<"quantity", "amount", "size", "value">>
             present == {i \in 1..4 : parameters[keys[i]].k # "absent"}
         IN  IF present = {} THEN Absent
             ELSE parameters[keys[CHOOSE i \in present : \A j \in present : i <= j]]

Denoted(val) ==
    LET unit == CASE val.suf = "K" -> Pow10(3)
                  [] val.suf = "M" -> Pow10(6)
                  [] val.suf = "B" -> Pow10(9)
                  [] OTHER -> 1
    IN  val.n * unit + (IF val.frac THEN unit \div 2 ELSE 0)

\* C26: magnitude normalization maps a string with a currency symbol and a
\* K, M or B suffix to the plain number it denotes (K = 10^3, M = 10^6,
\* B = 10^9), so that a parameter of $1B is treated as 1,000,000,000 and fails
\* the trade-size check against a maximum of 100,000,000.
C26_SuffixNormalization ==
    stage = "enforced" =>
        LET val == FirstMagnitudeValue(cur.selected_action.parameters)
        IN  (val.k = "str" /\ val.suf \in {"K", "M", "B"} /\ ~val.frac) =>
               /\ TradeSize(cur.selected_action.parameters) = Size(TRUE, Denoted(val), FALSE)
               /\ CheckStatus("trade_size_limit") = "failed" <=>
                     Denoted(val) > config.trade_limits.single_trade_max

\* ------------------------------------------------------------ claim C27
\* C27: the blacklist check fails, and the verdict is therefore rejected,
\* exactly when the action's symbol parameter, compared without regard to
\* case, is in the configured symbol blacklist or the action's function name
\* is in the configured action blacklist.
C27_BlacklistFails ==
    stage = "enforced" =>
        LET action == cur.selected_action
            symbol == action.parameters.symbol
            listed ==
                \/ /\ symbol \notin {"absent", "nonstring"}
                   /\ \E entry \in config.blacklist.symbols : Upper(entry) = Upper(symbol)
                \/ action.function \in config.blacklist.actions
        IN  /\ CheckStatus("blacklist_check") = "failed" <=> listed
            /\ listed => verdict.decision = "rejected"

\* ------------------------------------------------------ the FinRobot bridge
BlockModes == {"review", "monitor", "enforce"}

\* What intercept_tool_call returns, or the exception the hook raises
BridgeResult(allowed, reviewed, human_decision, raised) ==
    [allowed |-> allowed, reviewed |-> reviewed, human_decision |-> human_decision,
     raised |-> raised]

\* What _request_human_review returns (from the callback or the CLI)
Review(reviewer_id, decision, rationale, modification) ==
    [reviewer_id |-> reviewer_id, decision |-> decision, rationale |-> rationale,
     modification |-> modification]

EnforceModeAllows_only_approved(governance) == governance.decision = "approved"

\* enforce mode: block on a rejecting verdict
EnforceModeAllows(governance) == governance.decision # "rejected"

\* review mode, requires_review: record the human decision, allow if approved
HumanReviewed(out, now, review) ==
    [db |-> submit_human_decision(out.db, out.ret.chain_id, now, review.reviewer_id,
                                  review.decision, review.rationale,
                                  review.modification).db,
     ret |-> out.ret,
     result |-> BridgeResult(review.decision = "approved", TRUE, review.decision, "")]

Unreviewed(out, allowed) ==
    [db |-> out.db, ret |-> out.ret, result |-> BridgeResult(allowed, FALSE, None, "")]

\* intercept_tool_call after process_decision returned or raised
Intercepted(out, block_mode, now, review) ==
    IF ~out.ret.ok
    THEN [db |-> out.db, ret |-> out.ret,
          result |-> BridgeResult(FALSE, FALSE, None, out.ret.error)]
    ELSE CASE block_mode = "monitor" -> Unreviewed(out, TRUE)
           [] block_mode = "enforce" -> Unreviewed(out, EnforceModeAllows(out.ret.governance))
           [] OTHER -> IF out.ret.governance.requires_review
                       THEN HumanReviewed(out, now, review)
                       ELSE Unreviewed(out, TRUE)

\* FinRobotBridge.intercept_tool_call
intercept_tool_call(db, chain_id, now, cfg, block_mode, conv, tool_call, review) ==
    Intercepted(process_decision(db, chain_id, now, cfg, conv, tool_call),
                block_mode, now, review)

\* FinRobotBridge._process_tool_call: raise when the call is not allowed
_process_tool_call(out) ==
    IF out.result.raised = "" /\ ~out.result.allowed
    THEN [out EXCEPT !.result.raised = "ActionBlockedException"]
    ELSE out

InitBridge ==
    /\ config \in {DefaultConfig}
    /\ LifecycleIdle
    /\ ConcIdle
    /\ PureIdle
    /\ bridge \in {BridgeCall(m, FALSE, FALSE, FALSE, None, "") : m \in BlockModes}

\* The before_function_call hook on a high-stakes function
ProcessToolCall ==
    /\ clock < MaxCalls
    /\ uuid_count < MaxChains
    /\ \E conv \in LifecycleConversations, tool_call \in LifecycleToolCalls,
          reviewer_id \in Reviewers, decision \in Decisions,
          modification \in {NoDict, Dict({"amount"})} :
          \E out \in {_process_tool_call(
                          intercept_tool_call(CurrentDb, uuid_count + 1, clock + 1, config,
                              bridge.block_mode, conv, tool_call,
                              Review(reviewer_id, decision, "sound", modification)))} :
              /\ Committed(out)
              /\ bridge' = BridgeCall(bridge.block_mode, TRUE, out.result.allowed,
                                       out.result.reviewed, out.result.human_decision,
                                       out.result.raised)
    /\ uuid_count' = uuid_count + 1
    /\ clock' = clock + 1
    /\ UNCHANGED <<config, concVars, pureVars>>

NextBridge == ProcessToolCall

BridgeSpec == InitBridge /\ [][NextBridge]_vars

\* ------------------------------------------------------------ claim C28
\* C28: the hook allows according to the mode: monitor always allows; enforce
\* blocks exactly when the verdict is rejected; review requests and records a
\* human decision exactly when requires_review is true and then allows only if
\* that decision is approved, and allows without a human otherwise; a
\* disallowed call makes the hook raise ActionBlockedException.
C28_BridgeModes ==
    (bridge.called /\ ret.ok) =>
        LET governance == ret.governance
            row == chains[ret.chain_id]
        IN  /\ bridge.block_mode = "monitor" => (bridge.allowed /\ ~bridge.reviewed)
            /\ bridge.block_mode = "enforce" =>
                  /\ ~bridge.reviewed
                  /\ bridge.allowed <=> governance.decision # "rejected"
            /\ bridge.block_mode = "review" =>
                  /\ bridge.reviewed <=> governance.requires_review
                  /\ bridge.reviewed =>
                        /\ bridge.allowed <=> bridge.human_decision = "approved"
                        /\ row.human_decision = bridge.human_decision
                        /\ Cardinality(EventsOfType(audit_log, "human_decision",
                                                     ret.chain_id)) = 1
                  /\ ~bridge.reviewed => bridge.allowed
            /\ ~bridge.reviewed =>
                  /\ row.human_decision = None
                  /\ EventsOfType(audit_log, "human_decision", ret.chain_id) = {}
            /\ bridge.raised = IF bridge.allowed THEN "" ELSE "ActionBlockedException"

\* A second call in enforce mode whose verdict is review_required: it is
\* allowed without a human decision
C28_Witness ==
    /\ bridge.called /\ ret.ok
    /\ bridge.block_mode = "enforce"
    /\ ret.governance.decision = "review_required"
    /\ ret.governance.requires_review
    /\ bridge.allowed /\ ~bridge.reviewed
    /\ bridge.raised = ""
    /\ uuid_count = 2

\* ------------------------------------------------------------ claim C29
\* C29: submit_human_decision and record_execution never change the review
\* queue: after a human decision is recorded for a record, the queue entries
\* of that record are still present with status queued, and no lifecycle
\* operation marks a queue entry completed.
C29_ReviewQueueUntouched ==
    [][/\ ret'.op \in {"submit_human_decision", "record_execution"} =>
             review_queue' = review_queue
       /\ Returned("submit_human_decision") =>
             /\ chains'[ret'.chain_id].human_decision # None
             /\ QueueEntries(review_queue', ret'.chain_id) =
                   QueueEntries(review_queue, ret'.chain_id)
             /\ \A i \in QueueEntries(review_queue', ret'.chain_id) :
                   review_queue'[i].status = "queued"
       /\ \A i \in 1..Len(review_queue') :
             /\ review_queue'[i].status = "queued"
             /\ review_queue'[i].completed_at = NoTime]_vars

\* A record that required review, was decided by a human and then executed,
\* with its queue entry still queued
C29_Witness ==
    /\ Stored(1)
    /\ chains[1].requires_review
    /\ chains[1].human_decision = "approved"
    /\ chains[1].execution_status = "completed"
    /\ ret.op = "record_execution" /\ ret.ok
    /\ \E i \in QueueEntries(review_queue, 1) : review_queue[i].status = "queued"

\* ------------------------------------------------------------ claim C30
\* C30: for every verdict produced by enforce, requires_review = FALSE implies
\* decision = approved, and a decision of rejected or review_required implies
\* requires_review = TRUE; hence step 4 of process_decision enqueues every
\* rejected record (with priority urgent, as it has a violation).
C30_NotApprovedRequiresReview ==
    [][/\ stage' \in {"enforced", "enqueued"} =>
             /\ ~verdict'.requires_review => verdict'.decision = "approved"
             /\ verdict'.decision \in {"rejected", "review_required"} =>
                   verdict'.requires_review
             /\ verdict'.decision \in {"approved", "rejected", "review_required"}
       /\ (stage = "enforced" /\ verdict.decision = "rejected") =>
             /\ stage' = "enqueued"
             /\ queue_priority' = "urgent"
             /\ verdict' = verdict]_vars

\* A complete chain whose verdict is rejected: review is required by the
\* violation alone, and the record has been enqueued
C30_Witness ==
    /\ stage = "enqueued"
    /\ verdict.decision = "rejected"
    /\ verdict.requires_review
    /\ ~ScoreBelow(cur.completeness_score, 8, 10)
    /\ queue_priority = "urgent"

====
